---- MODULE Spec2Model ----
(***************************************************************************)
(* Model of assets/hooks/prompt-lint.py: the prompt hook that reads one    *)
(* payload from standard input, decodes it as JSON, takes its "prompt"     *)
(* field and either blocks (exit status 2, reminder on standard error) or  *)
(* lets the prompt through (exit status 0, guidance on standard output).   *)
(*                                                                         *)
(* Text is a sequence of one-character strings.  A payload is the sequence *)
(* of lexical tokens of its text: the model starts at the token level, and *)
(* a "junk" token stands for any run of characters that is no JSON token.  *)
(***************************************************************************)
EXTENDS Integers, Sequences, FiniteSets, TLC

VARIABLES
    stdin,       \* the payload waiting on standard input (environment)
    pc,          \* the statement the interpreter executes next
    data,        \* line 3: data
    obj,         \* line 5: obj
    prompt,      \* lines 6 and 8: prompt
    stdout,      \* the chunks written to standard output, in order
    stderr,      \* the chunks written to standard error, in order
    exitStatus,  \* the process's exit status, NoStatus while it runs
    prev         \* the previous invocation's payload and outcome

vars == <<stdin, pc, data, obj, prompt, stdout, stderr, exitStatus, prev>>

(***************************************************************************)
(* Bounds of the model.                                                    *)
(***************************************************************************)
\* longest padding put before or after a prompt's body
MaxPad == 1
\* most fields, other than prompt, put before or after the prompt field
MaxOther == 1
\* most invocations that follow the first one
MaxRuns == 2

(***************************************************************************)
(* Python values as json.loads builds them.  Every value has the same      *)
(* shape: a type tag, the text of a scalar, and the entries of a list or   *)
(* dict (a list's entries have the empty key).                             *)
(***************************************************************************)
JStr(s) == [t |-> "str", s |-> s, items |-> <<>>]
JNum(s) == [t |-> "num", s |-> s, items |-> <<>>]
JTrue == [t |-> "bool", s |-> <<"1">>, items |-> <<>>]
JFalse == [t |-> "bool", s |-> <<"0">>, items |-> <<>>]
JNull == [t |-> "none", s |-> <<>>, items |-> <<>>]
JList(es) == [t |-> "list", s |-> <<>>, items |-> es]
JDict(es) == [t |-> "dict", s |-> <<>>, items |-> es]
\* a name no statement has bound yet
Unbound == [t |-> "unbound", s |-> <<>>, items |-> <<>>]

Entry(k, v) == [k |-> k, val |-> v]

\* d[k] = v on a dict's entries: a repeated key keeps its place and takes
\* the later value
DictSet(es, k, v) ==
    IF \E i \in 1..Len(es) : es[i].k = k
    THEN [i \in 1..Len(es) |-> IF es[i].k = k THEN Entry(k, v) ELSE es[i]]
    ELSE Append(es, Entry(k, v))

(***************************************************************************)
(* json.loads on a token sequence.  A parse result is [ok, val, next]:     *)
(* whether a value was read, the value, and the index after it.            *)
(***************************************************************************)
Tok(k, s) == [k |-> k, s |-> s]

ParseFail == [ok |-> FALSE, val |-> JNull, next |-> 0]
ParseOk(v, n) == [ok |-> TRUE, val |-> v, next |-> n]

RECURSIVE ParseValue(_, _), ParseElems(_, _, _), ParseMembers(_, _, _)

ParseValue(toks, i) ==
    IF i > Len(toks) THEN ParseFail
    ELSE LET k == toks[i].k
             closes(c) == i + 1 <= Len(toks) /\ toks[i + 1].k = c
         IN  CASE k = "str"   -> ParseOk(JStr(toks[i].s), i + 1)
               [] k = "num"   -> ParseOk(JNum(toks[i].s), i + 1)
               [] k = "true"  -> ParseOk(JTrue, i + 1)
               [] k = "false" -> ParseOk(JFalse, i + 1)
               [] k = "null"  -> ParseOk(JNull, i + 1)
               [] k = "["     -> IF closes("]") THEN ParseOk(JList(<<>>), i + 2)
                                 ELSE ParseElems(toks, i + 1, <<>>)
               [] k = "{"     -> IF closes("}") THEN ParseOk(JDict(<<>>), i + 2)
                                 ELSE ParseMembers(toks, i + 1, <<>>)
               [] OTHER       -> ParseFail

\* the elements of an array from index i on, acc the entries read so far
ParseElems(toks, i, acc) ==
    LET r == ParseValue(toks, i) IN
    IF ~r.ok \/ r.next > Len(toks) THEN ParseFail
    ELSE LET es == Append(acc, Entry(<<>>, r.val)) IN
         CASE toks[r.next].k = "," -> ParseElems(toks, r.next + 1, es)
           [] toks[r.next].k = "]" -> ParseOk(JList(es), r.next + 1)
           [] OTHER                -> ParseFail

\* the members of an object from index i on, acc the entries read so far
ParseMembers(toks, i, acc) ==
    IF i + 1 > Len(toks) \/ toks[i].k # "str" \/ toks[i + 1].k # ":"
    THEN ParseFail
    ELSE LET r == ParseValue(toks, i + 2) IN
         IF ~r.ok \/ r.next > Len(toks) THEN ParseFail
         ELSE LET es == DictSet(acc, toks[i].s, r.val) IN
              CASE toks[r.next].k = "," -> ParseMembers(toks, r.next + 1, es)
                [] toks[r.next].k = "}" -> ParseOk(JDict(es), r.next + 1)
                [] OTHER                -> ParseFail

\* json.loads(data): one value and nothing after it, else JSONDecodeError
json_loads(toks) ==
    LET r == ParseValue(toks, 1) IN
    IF r.ok /\ r.next = Len(toks) + 1 THEN r ELSE ParseFail

(***************************************************************************)
(* obj.get("prompt", "").                                                  *)
(***************************************************************************)
PromptKey == <<"p", "r", "o", "m", "p", "t">>
EmptyStr == JStr(<<>>)

\* only a dict has a get method; on anything else the call raises
\* AttributeError
HasGet(v) == v.t = "dict"

\* dict.get(key, default)
DictGet(v, key, default) ==
    IF \E i \in 1..Len(v.items) : v.items[i].k = key
    THEN v.items[CHOOSE i \in 1..Len(v.items) : v.items[i].k = key].val
    ELSE default

(***************************************************************************)
(* len(prompt) > 0 and "acceptance" not in prompt.lower()                  *)
(***************************************************************************)
Marker == <<"a", "c", "c", "e", "p", "t", "a", "n", "c", "e">>

UpperAlpha ==
    <<"A", "B", "C", "D", "E", "F", "G", "H", "I", "J", "K", "L", "M",
      "N", "O", "P", "Q", "R", "S", "T", "U", "V", "W", "X", "Y", "Z">>
LowerAlpha ==
    <<"a", "b", "c", "d", "e", "f", "g", "h", "i", "j", "k", "l", "m",
      "n", "o", "p", "q", "r", "s", "t", "u", "v", "w", "x", "y", "z">>

LowerChar(c) ==
    IF \E i \in 1..Len(UpperAlpha) : UpperAlpha[i] = c
    THEN LowerAlpha[CHOOSE i \in 1..Len(UpperAlpha) : UpperAlpha[i] = c]
    ELSE c

\* str.lower()
Lower(s) == [i \in 1..Len(s) |-> LowerChar(s[i])]

\* m in s, for two strings
Contains(m, s) ==
    \E i \in 1..(Len(s) - Len(m) + 1) : SubSeq(s, i, i + Len(m) - 1) = m

\* len() is defined for str, list and dict; on int, float, bool and None it
\* raises TypeError
HasLen(v) == v.t \in {"str", "list", "dict"}
PyLen(v) == IF v.t = "str" THEN Len(v.s) ELSE Len(v.items)
\* only str has a lower method; on a list or dict it raises AttributeError
HasLower(v) == v.t = "str"

\* line 10 raises: nothing catches it
CheckRaises(p) == ~HasLen(p) \/ (PyLen(p) > 0 /\ ~HasLower(p))

\* mutant: the condition tests prompt.strip(), so a blank prompt passes
ShouldBlockStripped(p) ==
    (\E i \in 1..Len(p.s) : p.s[i] # " ") /\ ~Contains(Marker, Lower(p.s))

\* mutant: the condition looks for the marker in prompt, not prompt.lower()
ShouldBlockCaseSensitive(p) == PyLen(p) > 0 /\ ~Contains(Marker, p.s)

\* mutant: the condition reads len(prompt) >= 0
ShouldBlockAnyLen(p) == PyLen(p) >= 0 /\ ~Contains(Marker, Lower(p.s))

\* line 10's condition, where it raises nothing
ShouldBlock(p) == PyLen(p) > 0 /\ ~Contains(Marker, Lower(p.s))

(***************************************************************************)
(* The two messages and the exit statuses.                                 *)
(***************************************************************************)
Reminder == "Please include acceptance criteria in your prompt (exit=2 to block).\n"
Guidance == "Consider: objective, constraints, acceptance criteria, and test plan."

EXIT_BLOCK == 2
EXIT_OK == 0
\* the interpreter's exit status after an exception nothing caught
EXIT_UNCAUGHT == 1
\* the process has not exited (exit statuses are 0..255)
NoStatus == 0 - 1

\* what the interpreter prints on standard error for the exception line 10
\* raises on p
Traceback(p) ==
    IF ~HasLen(p) THEN "Traceback (most recent call last): TypeError"
    ELSE "Traceback (most recent call last): AttributeError"

(***************************************************************************)
(* The payloads the model feeds to the hook.                               *)
(***************************************************************************)
T(k) == Tok(k, <<>>)
StrTok(s) == Tok("str", s)
NumTok(s) == Tok("num", s)

UpperChar(c) ==
    IF \E i \in 1..Len(LowerAlpha) : LowerAlpha[i] = c
    THEN UpperAlpha[CHOOSE i \in 1..Len(LowerAlpha) : LowerAlpha[i] = c]
    ELSE c

\* every spelling of s in upper and lower case letters
CaseVariants(s) ==
    { [i \in 1..Len(s) |-> IF i \in U THEN UpperChar(s[i]) ELSE s[i]] :
        U \in SUBSET (1..Len(s)) }

PadChars == {" ", "a"}
Pads == UNION { [1..k -> PadChars] : k \in 0..MaxPad }

DoIt == <<"d", "o", " ", "i", "t">>
SmallBodies ==
    { <<>>, DoIt, Marker,
      <<"A", "C", "C", "E", "P", "T", "A", "N", "C", "E">>,
      <<"c", "c", "e", "p", "t", "a", "n", "c", "e">>,
      <<"A", "c", "c", "e", "p", "t", "a", "n", "c">>,
      <<"a", "c", "c", "e", "p", "t", " ", "a", "n", "c", "e">> }

SmallStrings == { pre \o b \o suf : pre \in Pads, suf \in Pads, b \in SmallBodies }
BigStrings == { pre \o v : pre \in Pads, v \in CaseVariants(Marker) }

\* "key": value
Member(key, valtoks) == <<StrTok(key), T(":")>> \o valtoks

RECURSIVE Join(_)
Join(members) ==
    IF Len(members) = 0 THEN <<>>
    ELSE IF Len(members) = 1 THEN members[1]
    ELSE members[1] \o <<T(",")>> \o Join(Tail(members))

\* { members }
Obj(members) == <<T("{")>> \o Join(members) \o <<T("}")>>

NonStringValues ==
    { <<NumTok(<<"0">>)>>, <<NumTok(<<"5">>)>>, <<T("true")>>, <<T("false")>>,
      <<T("null")>>, <<T("["), T("]")>>, <<T("["), StrTok(DoIt), T("]")>>,
      <<T("{"), T("}")>>, Obj(<<Member(PromptKey, <<StrTok(DoIt)>>)>>) }

PromptValues == { <<StrTok(s)>> : s \in SmallStrings } \cup NonStringValues

TinyValues ==
    { <<StrTok(<<>>)>>, <<StrTok(DoIt)>>,
      <<StrTok(<<"A", "c", "c", "e", "p", "t", "a", "n", "c", "e">>)>>,
      <<NumTok(<<"5">>)>>, <<T("null")>>, <<T("["), T("]")>>,
      <<T("["), StrTok(DoIt), T("]")>> }

OtherMembers ==
    { Member(<<"P", "r", "o", "m", "p", "t">>, <<StrTok(DoIt)>>),
      Member(<<"n", "o", "t", "e">>, <<StrTok(Marker)>>) }
OtherSeqs == UNION { [1..k -> OtherMembers] : k \in 0..MaxOther }

\* the prompt field: absent, once, or twice
PromptMembers ==
    {<<>>} \cup { <<Member(PromptKey, v)>> : v \in PromptValues }
    \cup { <<Member(PromptKey, v), Member(PromptKey, w)>> : v, w \in TinyValues }

ObjectPayloads ==
    { Obj(b \o pm \o a) : b \in OtherSeqs, a \in OtherSeqs, pm \in PromptMembers }
    \cup { Obj(<<Member(PromptKey, <<StrTok(s)>>)>>) : s \in BigStrings }

NonObjectPayloads ==
    (PromptValues \ {<<T("{"), T("}")>>, Obj(<<Member(PromptKey, <<StrTok(DoIt)>>)>>)})
    \cup { <<T("[")>> \o Obj(<<Member(PromptKey, <<StrTok(DoIt)>>)>>) \o <<T("]")>> }

\* payloads json.loads rejects: empty input, text that is no JSON, a cut-off
\* object, a missing colon, a trailing comma, text after the value, an
\* unquoted key
UndecodablePayloads ==
    { <<>>,
      <<T("junk")>>,
      <<T("junk"), T("junk"), T("junk")>>,
      <<T("{")>>,
      <<T("{"), StrTok(PromptKey), T(":"), StrTok(DoIt)>>,
      <<T("{"), StrTok(PromptKey), StrTok(DoIt), T("}")>>,
      <<T("{"), StrTok(PromptKey), T(":"), StrTok(DoIt), T(","), T("}")>>,
      Obj(<<Member(PromptKey, <<StrTok(DoIt)>>)>>) \o <<T("junk")>>,
      Obj(<<Member(PromptKey, <<StrTok(DoIt)>>)>>) \o <<T("{"), T("}")>>,
      <<T("{"), T("junk"), T(":"), StrTok(DoIt), T("}")>>,
      <<T("["), NumTok(<<"5">>), T(","), T("]")>>,
      <<T("}")>> }

Payloads == ObjectPayloads \cup NonObjectPayloads \cup UndecodablePayloads

\* the payloads of the runs that follow one another
PairPayloads ==
    { Obj(b \o pm) : b \in OtherSeqs,
                     pm \in {<<>>} \cup { <<Member(PromptKey, v)>> : v \in TinyValues } }
    \cup { <<>>, <<T("junk")>>, <<StrTok(DoIt)>>, <<T("["), T("]")>>,
           <<T("{"), StrTok(PromptKey), T(":"), StrTok(DoIt)>> }

(***************************************************************************)
(* The run of the script, statement by statement.                          *)
(***************************************************************************)
NoPrev == [n |-> 0, stdin |-> <<>>, exit |-> NoStatus, out |-> <<>>, err |-> <<>>]

\* a fresh interpreter: nothing bound, nothing written
Fresh ==
    /\ pc = "read"
    /\ data = <<>>
    /\ obj = Unbound
    /\ prompt = Unbound
    /\ stdout = <<>>
    /\ stderr = <<>>
    /\ exitStatus = NoStatus

Init == stdin \in Payloads /\ Fresh /\ prev = NoPrev

\* line 3: data = sys.stdin.read()
ReadStdin ==
    /\ pc = "read"
    /\ data' = stdin
    /\ pc' = "loads"
    /\ UNCHANGED <<stdin, obj, prompt, stdout, stderr, exitStatus, prev>>

\* line 5: obj = json.loads(data), inside try
Loads ==
    /\ pc = "loads"
    /\ LET r == json_loads(data) IN
       IF r.ok THEN obj' = r.val /\ pc' = "get"
       ELSE obj' = obj /\ pc' = "except"
    /\ UNCHANGED <<stdin, data, prompt, stdout, stderr, exitStatus, prev>>

\* mutant: obj.get("prompt"), whose default is None
GetDefaultNone ==
    /\ pc = "get"
    /\ IF HasGet(obj) THEN prompt' = DictGet(obj, PromptKey, JNull) /\ pc' = "check"
       ELSE prompt' = prompt /\ pc' = "except"
    /\ UNCHANGED <<stdin, data, obj, stdout, stderr, exitStatus, prev>>

\* mutant: the lookup sits after the try block, so its AttributeError is not
\* caught
GetOutsideTry ==
    /\ pc = "get"
    /\ IF HasGet(obj) THEN prompt' = DictGet(obj, PromptKey, EmptyStr) /\ pc' = "check"
       ELSE prompt' = prompt /\ pc' = "raise"
    /\ UNCHANGED <<stdin, data, obj, stdout, stderr, exitStatus, prev>>

\* mutant: the lookup matches the key whatever its letter case
GetAnyCase ==
    /\ pc = "get"
    /\ IF HasGet(obj)
       THEN /\ prompt' =
                 IF \E i \in 1..Len(obj.items) : Lower(obj.items[i].k) = PromptKey
                 THEN obj.items[CHOOSE i \in 1..Len(obj.items) :
                                    Lower(obj.items[i].k) = PromptKey].val
                 ELSE EmptyStr
            /\ pc' = "check"
       ELSE prompt' = prompt /\ pc' = "except"
    /\ UNCHANGED <<stdin, data, obj, stdout, stderr, exitStatus, prev>>

\* line 6: prompt = obj.get("prompt",""), inside try
Get ==
    /\ pc = "get"
    /\ IF HasGet(obj) THEN prompt' = DictGet(obj, PromptKey, EmptyStr) /\ pc' = "check"
       ELSE prompt' = prompt /\ pc' = "except"
    /\ UNCHANGED <<stdin, data, obj, stdout, stderr, exitStatus, prev>>

\* lines 7-8: except Exception: prompt = ""
Except ==
    /\ pc = "except"
    /\ prompt' = EmptyStr
    /\ pc' = "check"
    /\ UNCHANGED <<stdin, data, obj, stdout, stderr, exitStatus, prev>>

\* line 10: if len(prompt) > 0 and "acceptance" not in prompt.lower()
Check ==
    /\ pc = "check"
    /\ pc' = IF CheckRaises(prompt) THEN "raise"
             ELSE IF ShouldBlock(prompt) THEN "write_err" ELSE "write_out"
    /\ UNCHANGED <<stdin, data, obj, prompt, stdout, stderr, exitStatus, prev>>

\* the exception of line 10 reaches the top level: the interpreter prints
\* the traceback and exits
Uncaught ==
    /\ pc = "raise"
    /\ stderr' = Append(stderr, Traceback(prompt))
    /\ exitStatus' = EXIT_UNCAUGHT
    /\ pc' = "done"
    /\ UNCHANGED <<stdin, data, obj, prompt, stdout, prev>>

\* line 11: sys.stderr.write(...)
WriteReminder ==
    /\ pc = "write_err"
    /\ stderr' = Append(stderr, Reminder)
    /\ pc' = "exit_block"
    /\ UNCHANGED <<stdin, data, obj, prompt, stdout, exitStatus, prev>>

\* line 12: sys.exit(2)
ExitBlock ==
    /\ pc = "exit_block"
    /\ exitStatus' = EXIT_BLOCK
    /\ pc' = "done"
    /\ UNCHANGED <<stdin, data, obj, prompt, stdout, stderr, prev>>

\* line 14: sys.stdout.write(...)
WriteGuidance ==
    /\ pc = "write_out"
    /\ stdout' = Append(stdout, Guidance)
    /\ pc' = "exit_ok"
    /\ UNCHANGED <<stdin, data, obj, prompt, stderr, exitStatus, prev>>

\* line 15: sys.exit(0)
ExitOk ==
    /\ pc = "exit_ok"
    /\ exitStatus' = EXIT_OK
    /\ pc' = "done"
    /\ UNCHANGED <<stdin, data, obj, prompt, stdout, stderr, prev>>

\* the record of the invocation that has just ended
Outcome == [n |-> prev.n + 1, stdin |-> stdin, exit |-> exitStatus,
            out |-> stdout, err |-> stderr]

\* mutant: the streams of the earlier invocation are still there
InvokeKeepingStreams ==
    /\ pc = "done"
    /\ prev.n < MaxRuns
    /\ prev' = Outcome
    /\ stdin' \in PairPayloads
    /\ pc' = "read" /\ data' = <<>> /\ obj' = Unbound /\ prompt' = Unbound
    /\ exitStatus' = NoStatus
    /\ UNCHANGED <<stdout, stderr>>

\* lines 1-2: the hook is run again, as a new process with a new payload
Invoke ==
    /\ pc = "done"
    /\ prev.n < MaxRuns
    /\ prev' = Outcome
    /\ stdin' \in PairPayloads
    /\ pc' = "read" /\ data' = <<>> /\ obj' = Unbound /\ prompt' = Unbound
    /\ stdout' = <<>> /\ stderr' = <<>>
    /\ exitStatus' = NoStatus

Next ==
    \/ ReadStdin
    \/ Loads
    \/ Get
    \/ Except
    \/ Check
    \/ Uncaught
    \/ WriteReminder
    \/ ExitBlock
    \/ WriteGuidance
    \/ ExitOk

\* one invocation of the hook
Spec == Init /\ [][Next]_vars

\* the interpreter keeps executing statements until the process exits
FairSpec == Spec /\ WF_vars(Next)

\* invocations that follow one another
InitRuns == stdin \in PairPayloads /\ Fresh /\ prev = NoPrev
NextRuns == Next \/ Invoke
SpecRuns == InitRuns /\ [][NextRuns]_vars

(***************************************************************************)
(* What the claims speak of: the payload as JSON, and the two outcomes.    *)
(***************************************************************************)
IsObjectPayload(toks) == json_loads(toks).ok /\ json_loads(toks).val.t = "dict"

\* the payload is an object that has a prompt key
HasPromptField(toks) ==
    /\ IsObjectPayload(toks)
    /\ \E i \in 1..Len(json_loads(toks).val.items) :
           json_loads(toks).val.items[i].k = PromptKey

\* the value of the payload's prompt key
PromptField(toks) == DictGet(json_loads(toks).val, PromptKey, EmptyStr)

\* the payload is an object whose prompt is a string
HasStringPrompt(toks) == HasPromptField(toks) /\ PromptField(toks).t = "str"

\* s holds the marker, each letter in either case
ContainsAnyCase(s) ==
    \E i \in 1..(Len(s) - Len(Marker) + 1) :
        \A j \in 1..Len(Marker) :
            s[i + j - 1] \in {Marker[j], UpperChar(Marker[j])}

Done == pc = "done"
Blocked == Done /\ exitStatus = EXIT_BLOCK /\ stderr = <<Reminder>> /\ stdout = <<>>
Allowed == Done /\ exitStatus = EXIT_OK /\ stdout = <<Guidance>> /\ stderr = <<>>

\* the statements before the one that decides the verdict, and that one
BeforeVerdict == pc \in {"read", "loads", "get", "except", "check"}

\* C1: a payload that is an object whose prompt is a non-empty string whose
\* lower-cased form lacks "acceptance" (a blank prompt included) ends
\* Blocked: exit status 2, exactly the reminder and its newline on standard
\* error.
C1_NonEmptyWithoutMarkerBlocked ==
    (/\ Done
     /\ HasStringPrompt(stdin)
     /\ Len(PromptField(stdin).s) > 0
     /\ ~Contains(Marker, Lower(PromptField(stdin).s)))
    => (exitStatus = EXIT_BLOCK /\ stderr = <<Reminder>> /\ stdout = <<>>)

\* a blank prompt has been blocked
C1_Witness ==
    /\ Blocked
    /\ HasStringPrompt(stdin)
    /\ PromptField(stdin).s = <<" ">>

\* C2: a payload that is an object whose prompt is a string holding
\* "acceptance" in any mix of upper and lower case, anywhere, ends Allowed:
\* exit status 0, exactly the guidance (no newline) on standard output.
C2_MarkerAnyCaseAllowed ==
    (Done /\ HasStringPrompt(stdin) /\ ContainsAnyCase(PromptField(stdin).s))
    => (exitStatus = EXIT_OK /\ stdout = <<Guidance>> /\ stderr = <<>>)

\* a prompt that holds the marker in mixed case, after other text, has been
\* allowed
C2_Witness ==
    /\ Allowed
    /\ HasStringPrompt(stdin)
    /\ ContainsAnyCase(PromptField(stdin).s)
    /\ ~Contains(Marker, PromptField(stdin).s)
    /\ Len(PromptField(stdin).s) > Len(Marker)

\* C3: a payload that is an object without a prompt key, or whose prompt
\* is empty (a string, list or dict of length 0), ends Allowed, whatever
\* other keys it has.
C3_EmptyOrAbsentAllowed ==
    (/\ Done
     /\ IsObjectPayload(stdin)
     /\ \/ ~HasPromptField(stdin)
        \/ /\ HasLen(PromptField(stdin))
           /\ PyLen(PromptField(stdin)) = 0)
    => Allowed

\* an object with other keys and no prompt key has been allowed
C3_Witness ==
    /\ Allowed
    /\ IsObjectPayload(stdin)
    /\ ~HasPromptField(stdin)
    /\ Len(json_loads(stdin).val.items) > 0

\* C4: a payload that json.loads rejects (the empty one included) or that
\* is JSON but no object falls back to the empty prompt and ends Allowed,
\* with nothing on standard error.
C4_FailOpen ==
    (~BeforeVerdict /\ ~IsObjectPayload(stdin))
    => /\ prompt = EmptyStr
       /\ stderr = <<>>
       /\ Done => Allowed

\* a JSON value that is no object has been allowed
C4_WitnessNonObject ==
    /\ Allowed
    /\ json_loads(stdin).ok
    /\ ~IsObjectPayload(stdin)

\* a payload that is no JSON has been allowed
C4_Witness ==
    /\ Allowed
    /\ ~json_loads(stdin).ok
    /\ Len(stdin) > 0

\* C5: whatever the payload, the process ends with exit status 0 or 2.
C5_ExitStatusZeroOrTwo == Done => exitStatus \in {EXIT_OK, EXIT_BLOCK}

\* C6: every run has exactly one of the two effects: the reminder alone on
\* standard error with exit status 2, or the guidance alone on standard
\* output with exit status 0, each written once.
C6_ExactlyOneEffect ==
    /\ Len(stderr) <= 1 /\ Len(stdout) <= 1
    /\ ~(stderr # <<>> /\ stdout # <<>>)
    /\ Done => \/ exitStatus = EXIT_BLOCK /\ stderr = <<Reminder>> /\ stdout = <<>>
               \/ exitStatus = EXIT_OK /\ stdout = <<Guidance>> /\ stderr = <<>>

C8_OnlyPromptMatters ==
    (/\ Done
     /\ prev.n > 0
     /\ IsObjectPayload(stdin)
     /\ IsObjectPayload(prev.stdin)
     /\ HasPromptField(stdin) = HasPromptField(prev.stdin)
     /\ HasPromptField(stdin) => PromptField(stdin) = PromptField(prev.stdin))
    => (exitStatus = prev.exit /\ stdout = prev.out /\ stderr = prev.err)

\* two objects with the same prompt and different other fields have been
\* run
C8_Witness ==
    /\ Done
    /\ prev.n > 0
    /\ HasPromptField(stdin)
    /\ HasPromptField(prev.stdin)
    /\ PromptField(stdin) = PromptField(prev.stdin)
    /\ Len(json_loads(stdin).val.items) # Len(json_loads(prev.stdin).val.items)

\* C9: the run goes from Start to exactly one of Blocked and Allowed: it
\* writes nothing before the verdict is decided, and once stopped it is in
\* one of the two terminal states.
C9_TwoOutcomeMachine ==
    /\ BeforeVerdict => (stdout = <<>> /\ stderr = <<>> /\ exitStatus = NoStatus)
    /\ Done => ((Blocked \/ Allowed) /\ ~(Blocked /\ Allowed))

\* C9, the order of the steps: read, parse, evaluate, write, exit, and no
\* step after the exit.
C9_StepOrder ==
    [][/\ pc = "read" => pc' = "loads"
       /\ pc = "loads" => pc' \in {"get", "except"}
       /\ pc = "get" => pc' \in {"check", "except"}
       /\ pc = "except" => pc' = "check"
       /\ pc = "check" => pc' \in {"write_err", "write_out", "raise"}
       /\ pc = "write_err" => pc' = "exit_block"
       /\ pc = "write_out" => pc' = "exit_ok"
       /\ pc \in {"exit_block", "exit_ok", "raise"} => pc' = "done"
       /\ pc # "done"]_vars

\* C9, the end of the run: every run ends.
C9_Terminates == <>Done

\* C10: only a payload that is an object whose prompt is a non-empty string
\* whose lower-cased form lacks "acceptance" is Blocked.
C10_BlockedOnlyIf ==
    (\/ exitStatus = EXIT_BLOCK
     \/ \E i \in 1..Len(stderr) : stderr[i] = Reminder)
    => /\ HasStringPrompt(stdin)
       /\ Len(PromptField(stdin).s) > 0
       /\ ~Contains(Marker, Lower(PromptField(stdin).s))

\* a prompt has been blocked although another field holds the marker
C10_Witness ==
    /\ Blocked
    /\ \E i \in 1..Len(json_loads(stdin).val.items) :
           /\ json_loads(stdin).val.items[i].k # PromptKey
           /\ json_loads(stdin).val.items[i].val = JStr(Marker)

====
